---- MODULE Spec2Model ----
(***************************************************************************)
(* Model of the option-chain engine (utils/option_chain.py,                *)
(* OptionChainManager) and of the streaming connection                     *)
(* (utils/websocket_manager.py, ProfessionalWebSocketManager).             *)
(*                                                                         *)
(* Spec         : the engine's entry points with the connection it calls.  *)
(* SnapshotSpec : the engine with a reader calling get_option_chain.       *)
(* ConnSpec     : the connection, its callers and its socket callbacks.    *)
(*                                                                         *)
(* Prices are whole index points (integers).  round(ltp / strike_step) is  *)
(* Python's round: nearest integer, ties to the even integer (PyRound).    *)
(* A Python dict is a function plus its insertion order (key_order for     *)
(* option_data).  Every engine entry point runs to completion as one step. *)
(***************************************************************************)
EXTENDS Integers, Sequences, FiniteSets, TLC

VARIABLES
    underlying,         \* OptionChainManager.underlying
    expiry,             \* OptionChainManager.expiry
    strike_step,        \* OptionChainManager.strike_step
    option_data,        \* dict strike -> row
    key_order,          \* insertion order of option_data's keys
    subscription_map,   \* dict symbol -> [strike, type]
    underlying_ltp,
    underlying_bid,
    underlying_ask,
    atm_strike,
    websocket_manager,  \* TRUE iff the engine was given a connection object
    api_client,         \* TRUE iff self.api_client has been assigned
    initialized,
    ws,                 \* connection: TRUE iff self.ws is not None
    authenticated,      \* connection: self.authenticated
    subscriptions,      \* connection: self.subscriptions
    quote_handlers,     \* connection: self.quote_handlers
    depth_handlers,     \* connection: self.depth_handlers
    ltp_handlers,       \* connection: self.ltp_handlers
    active,             \* connection: self.active
    sock,               \* the socket of self.ws: none, connecting, open, failed, closed
    sent,               \* messages handed to ws.send, in order
    connecting,         \* TRUE while a connect call is in its wait (line 56)
    requested,          \* ConnSpec: every subscription its callers asked for
    auth_seen,          \* the auth results received: whether a success, and the last one
    event,              \* the last connection call or callback and what it did
    snapshot,           \* the dict a get_option_chain call returned, as its holder sees it
    writer,             \* RaceSpec: where the socket thread is inside a handler
    reader,             \* RaceSpec: the row the request thread read last
    last                \* the last entry-point call: its inputs, result and pre-state

engine_vars == <<option_data, key_order, subscription_map, underlying_ltp,
                 underlying_bid, underlying_ask, atm_strike, api_client>>
conn_vars == <<ws, authenticated, subscriptions, quote_handlers, depth_handlers,
               ltp_handlers, active, sock, sent>>
caller_vars == <<connecting, requested, auth_seen, event>>
thread_vars == <<writer, reader>>
fixed_vars == <<underlying, expiry, strike_step, websocket_manager>>
vars == <<underlying, expiry, strike_step, option_data, key_order, subscription_map,
          underlying_ltp, underlying_bid, underlying_ask, atm_strike,
          websocket_manager, api_client, initialized, ws, authenticated,
          subscriptions, quote_handlers, depth_handlers, ltp_handlers, active,
          sock, sent, connecting, requested, auth_seen, event, snapshot, writer,
          reader, last>>

-----------------------------------------------------------------------------
(* Input sets *)

\* number of strikes generated on each side of ATM: range(20, 0, -1), range(1, 21)
HalfWidth == 20

Underlyings == {"NIFTY", "BANKNIFTY"}

\* expiry as the engine receives it: a dash-separated string, held as its
\* '-'-separated parts
Expiries == {[kind |-> "str", parts |-> <<"7", "NOV", "25">>]}

\* LTP values of inbound quote ticks for strike step S (a feed's prices are
\* never negative): zero, a positive value that rounds to strike 0, an exact tie between two
\* strikes (24525 for step 50, 24550 for step 100), a price strictly between two strikes
\* and a price more than HalfWidth steps away from the others
QuoteLtps(S) == {0, 20, 24500 + S \div 2, 24537, 27000}

OtherSymbol == "SENSEX"

NoResp == [raises |-> FALSE, status |-> "none", ltp |-> 0, has_bid_ask |-> FALSE,
           bid |-> 0, ask |-> 0]

\* what api_client.quotes(...) can do: raise, answer with a non-success
\* status, or answer with status success and a data object
RestResponses ==
    { [raises |-> TRUE, status |-> "none", ltp |-> 0, has_bid_ask |-> FALSE,
       bid |-> 0, ask |-> 0],
      [raises |-> FALSE, status |-> "error", ltp |-> 0, has_bid_ask |-> FALSE,
       bid |-> 0, ask |-> 0],
      [raises |-> FALSE, status |-> "success", ltp |-> 0, has_bid_ask |-> FALSE,
       bid |-> 0, ask |-> 0],
      [raises |-> FALSE, status |-> "success", ltp |-> 24575, has_bid_ask |-> TRUE,
       bid |-> 24570, ask |-> 24580] }

\* strikes whose CE/PE symbols inbound depth ticks carry
DepthStrikes == {24600}

UnknownSymbol == "UNKNOWN"

\* the payload of a depth tick: ltp, lists of [price, quantity] levels, volume, oi:
\* a two-sided book, a book with no bids, and a crossed book (best bid above
\* best ask, all prices and sizes positive)
DepthPayloads ==
    { [ltp |-> 120, bids |-> <<<<120, 75>>>>, asks |-> <<<<121, 50>>>>,
       volume |-> 1000, oi |-> 500],
      [ltp |-> 95, bids |-> <<>>, asks |-> <<<<96, 25>>>>,
       volume |-> 0, oi |-> 300],
      [ltp |-> 97, bids |-> <<<<98, 10>>>>, asks |-> <<<<96, 25>>>>,
       volume |-> 10, oi |-> 300] }

NoData == [symbol |-> "", ltp |-> 0]

\* the longest `sent` and the most registered handlers the connection
\* specification follows
MaxSent == 3
MaxHandlers == 2

\* subscriptions the callers of the connection specification ask for, one by
\* one (subscribe) and as a batch in depth mode (subscribe_batch)
SubscriptionRequests ==
    { [symbol |-> "NIFTY", exchange |-> "NSE_INDEX", mode |-> "quote"],
      [symbol |-> "NIFTY07NOV2524600CE", exchange |-> "NFO", mode |-> "depth"] }

BatchInstruments == <<[symbol |-> "NIFTY07NOV2524600PE", exchange |-> "NFO"]>>

NoSub == [symbol |-> "", exchange |-> "", mode |-> ""]

NoMsg == [malformed |-> FALSE, type |-> "", status |-> "", keys |-> {},
          has_data |-> FALSE, data_keys |-> {}]

\* inbound frames: text that is not JSON, the two auth results, and market
\* data by the keys it carries (flat, or nested under 'data')
Messages ==
    { [NoMsg EXCEPT !.malformed = TRUE],
      [NoMsg EXCEPT !.type = "auth", !.status = "success", !.keys = {"type", "status"}],
      [NoMsg EXCEPT !.type = "auth", !.status = "error", !.keys = {"type", "status"}],
      [NoMsg EXCEPT !.keys = {"symbol", "ltp", "bids", "asks"}],
      [NoMsg EXCEPT !.keys = {"symbol", "ltp", "open"}],
      [NoMsg EXCEPT !.type = "market_data", !.keys = {"type", "symbol", "ltp"}],
      [NoMsg EXCEPT !.type = "market_data", !.keys = {"type", "data"},
                    !.has_data = TRUE, !.data_keys = {"symbol", "depth", "open"}],
      [NoMsg EXCEPT !.type = "other", !.keys = {"type", "symbol", "open"}] }

NoEvent == [op |-> "none", ret |-> "None", sub |-> NoSub, msg |-> NoMsg,
            mode |-> "none", delivered |-> <<>>, pre_state |-> "Disconnected",
            sent_before |-> 0]

\* how a quotes(...) call ended, as the call record keeps it
Outcome(resp) ==
    IF resp.raises THEN "raised"
    ELSE IF resp.status # "success" THEN "error"
    ELSE IF resp.ltp > 0 THEN "success"
    ELSE "nonpositive"

-----------------------------------------------------------------------------
(* Pure helpers *)

\* round with ties away from zero instead of to even
PyRound_half_up(num, den) == (2 * num + den) \div (2 * den)

\* Python round(num / den) for den > 0: nearest integer, ties to even
PyRound(num, den) ==
    LET q == num \div den
        r == num % den
    IN  IF 2 * r < den THEN q
        ELSE IF 2 * r > den THEN q + 1
        ELSE IF q % 2 = 0 THEN q ELSE q + 1

ZeroQuote == [ltp |-> 0, bid |-> 0, ask |-> 0, bid_qty |-> 0,
              ask_qty |-> 0, spread |-> 0, volume |-> 0, oi |-> 0]

EmptyDict == [k \in {} |-> 0]

\* str.zfill(2)
zfill2(s) == IF Len(s) < 2 THEN "0" \o s ELSE s

expiry_formatted ==
    IF expiry.kind = "str" /\ Len(expiry.parts) >= 2
    THEN zfill2(expiry.parts[1]) \o expiry.parts[2]
    ELSE "28AUG"

\* the option type left out of the symbol
construct_option_symbol_untyped(strike, option_type) ==
    underlying \o expiry_formatted \o "25" \o ToString(strike)

construct_option_symbol(strike, option_type) ==
    underlying \o expiry_formatted \o "25" \o ToString(strike) \o option_type

get_position_tag(position) ==
    IF position = 0 THEN "ATM"
    ELSE IF position > 0 THEN "OTM" \o ToString(position)
    ELSE "ITM" \o ToString(-position)

get_strike_position(atm, strike) ==
    IF atm = 0 THEN 0 ELSE (strike - atm) \div strike_step

mode_map(mode) ==
    IF mode = "ltp" THEN 1
    ELSE IF mode = "quote" THEN 2
    ELSE IF mode = "depth" THEN 3
    ELSE 1

index_exchange == IF underlying = "SENSEX" THEN "BSE_INDEX" ELSE "NSE_INDEX"
option_exchange == IF underlying = "SENSEX" THEN "BFO" ELSE "NFO"

-----------------------------------------------------------------------------
(* The two objects as records, so that a call can be threaded through the   *)
(* calls it makes                                                          *)

Engine ==
    [option_data |-> option_data, key_order |-> key_order,
     subscription_map |-> subscription_map, underlying_ltp |-> underlying_ltp,
     underlying_bid |-> underlying_bid, underlying_ask |-> underlying_ask,
     atm_strike |-> atm_strike, api_client |-> api_client]

SetEngine(e) ==
    /\ option_data' = e.option_data
    /\ key_order' = e.key_order
    /\ subscription_map' = e.subscription_map
    /\ underlying_ltp' = e.underlying_ltp
    /\ underlying_bid' = e.underlying_bid
    /\ underlying_ask' = e.underlying_ask
    /\ atm_strike' = e.atm_strike
    /\ api_client' = e.api_client

Conn ==
    [ws |-> ws, authenticated |-> authenticated, subscriptions |-> subscriptions,
     quote_handlers |-> quote_handlers, depth_handlers |-> depth_handlers,
     ltp_handlers |-> ltp_handlers, active |-> active, sock |-> sock,
     sent |-> sent]

SetConn(w) ==
    /\ ws' = w.ws
    /\ authenticated' = w.authenticated
    /\ subscriptions' = w.subscriptions
    /\ quote_handlers' = w.quote_handlers
    /\ depth_handlers' = w.depth_handlers
    /\ ltp_handlers' = w.ltp_handlers
    /\ active' = w.active
    /\ sock' = w.sock
    /\ sent' = w.sent

-----------------------------------------------------------------------------
(* ProfessionalWebSocketManager *)

register_handler(w, mode, handler) ==
    IF mode = "quote" THEN [w EXCEPT !.quote_handlers = Append(@, handler)]
    ELSE IF mode = "depth" THEN [w EXCEPT !.depth_handlers = Append(@, handler)]
    ELSE IF mode = "ltp" THEN [w EXCEPT !.ltp_handlers = Append(@, handler)]
    ELSE w

subscribe_message(subscription) ==
    [action |-> "subscribe", symbol |-> subscription.symbol,
     exchange |-> subscription.exchange,
     mode |-> mode_map(subscription.mode), depth |-> 5]

\* returns [ret, raised, w].  self.ws.send on a socket that is not open raises
\* (WebSocketApp.send: WebSocketConnectionClosedException) before the
\* subscription is recorded; subscribe does not catch it
subscribe(w, subscription) ==
    IF ~w.ws \/ ~w.authenticated
    THEN [ret |-> FALSE, raised |-> FALSE, w |-> w]
    ELSE IF w.sock # "open"
    THEN [ret |-> FALSE, raised |-> TRUE, w |-> w]
    ELSE [ret |-> TRUE, raised |-> FALSE,
          w |-> [w EXCEPT !.sent = Append(@, subscribe_message(subscription)),
                          !.subscriptions = @ \cup {subscription}]]

\* the loop of subscribe calls; subscribe changes none of ws, authenticated
\* and the socket, so every call of the loop ends the way the first does (a
\* raise in the first ends the loop with nothing sent)
subscribe_batch(w, instruments, mode) ==
    LET subs == [i \in 1..Len(instruments) |->
                    [symbol |-> instruments[i].symbol,
                     exchange |-> instruments[i].exchange,
                     mode |-> mode]]
        done == SelectSeq(subs, LAMBDA s : subscribe(w, s).ret)
    IN  [w EXCEPT !.sent = @ \o [i \in 1..Len(done) |-> subscribe_message(done[i])],
                  !.subscriptions = @ \cup {done[i] : i \in 1..Len(done)}]

\* the iteration `for sub_str in self.subscriptions`, visiting the set in the
\* order `order`; every element is already recorded, so the set is unchanged
resubscribe_all(w, order) ==
    LET done == SelectSeq(order, LAMBDA sub : subscribe(w, sub).ret)
    IN  [w EXCEPT !.sent = @ \o [i \in 1..Len(done) |-> subscribe_message(done[i])],
                  !.subscriptions = @ \cup {done[i] : i \in 1..Len(done)}]

auth_message == [action |-> "authenticate", api_key |-> "api_key"]

authenticate(w) ==
    IF w.ws THEN [w EXCEPT !.sent = Append(@, auth_message)] ELSE w

on_open(w) == authenticate(w)

\* connect up to the start of the socket thread (lines 37-53); `fails` is an
\* exception out of WebSocketApp(...) or Thread.start(), which leaves self.ws
\* as it was and makes connect return False
connect_start(w, fails) ==
    IF fails
    THEN [w EXCEPT !.authenticated = FALSE]
    ELSE [w EXCEPT !.authenticated = FALSE, !.ws = TRUE, !.sock = "connecting"]

\* connect after its wait (lines 58-60)
connect_finish(w) == [w EXCEPT !.active = TRUE]

\* market_data = data.get('data', data), as its set of keys
market_data_keys(msg) == IF msg.has_data THEN msg.data_keys ELSE msg.keys

mode_of(keys) ==
    IF "depth" \in keys \/ "bids" \in keys THEN "depth"
    ELSE IF "open" \in keys THEN "quote"
    ELSE "ltp"

\* the loop left at the first handler that raises
process_market_data_unprotected(w, msg, raising) ==
    LET mode == mode_of(market_data_keys(msg))
        handlers == IF mode = "depth" THEN w.depth_handlers
                    ELSE IF mode = "quote" THEN w.quote_handlers
                    ELSE <<>>
        stop == IF raising \cap DOMAIN handlers = {} THEN Len(handlers)
                ELSE CHOOSE i \in raising \cap DOMAIN handlers :
                        \A j \in raising \cap DOMAIN handlers : i <= j
    IN  [mode |-> mode,
         delivered |-> [i \in 1..stop |->
                          [handler |-> handlers[i], raised |-> i \in raising]]]

\* returns the mode and the handler calls made, in order; `raising` is the
\* set of positions of the handler list whose handler raises on this message
process_market_data(w, msg, raising) ==
    LET mode == mode_of(market_data_keys(msg))
        handlers == IF mode = "depth" THEN w.depth_handlers
                    ELSE IF mode = "quote" THEN w.quote_handlers
                    ELSE <<>>
    IN  [mode |-> mode,
         delivered |-> [i \in 1..Len(handlers) |->
                          [handler |-> handlers[i], raised |-> i \in raising]]]

\* returns [w, mode, delivered]; mode is "none" for a message that is not
\* dispatched.  The whole body is inside try/except Exception.
on_message(w, msg, order, raising) ==
    IF msg.malformed
    THEN [w |-> w, mode |-> "none", delivered |-> <<>>]
    ELSE IF msg.type = "auth"
    THEN IF msg.status = "success"
         THEN LET w1 == [w EXCEPT !.authenticated = TRUE]
              IN  [w |-> IF w1.subscriptions # {} THEN resubscribe_all(w1, order) ELSE w1,
                   mode |-> "none", delivered |-> <<>>]
         ELSE [w |-> w, mode |-> "none", delivered |-> <<>>]
    ELSE IF msg.type = "market_data" \/ "ltp" \in msg.keys
    THEN LET d == process_market_data(w, msg, raising)
         IN  [w |-> w, mode |-> d.mode, delivered |-> d.delivered]
    ELSE [w |-> w, mode |-> "none", delivered |-> <<>>]

on_error(w) == w

on_close(w) == [w EXCEPT !.active = FALSE]

-----------------------------------------------------------------------------
(* OptionChainManager *)

\* returns [ret, e, fetched, resp]
calculate_atm(e, resp) ==
    IF e.underlying_ltp > 0
    THEN LET a == PyRound(e.underlying_ltp, strike_step) * strike_step
         IN  [ret |-> a, e |-> [e EXCEPT !.atm_strike = a], fetched |-> FALSE]
    ELSE IF ~e.api_client
    THEN \* self.api_client does not exist: AttributeError, caught
         [ret |-> 0, e |-> e, fetched |-> FALSE]
    ELSE IF resp.raises
    THEN [ret |-> 0, e |-> e, fetched |-> TRUE]
    ELSE IF resp.status # "success"
    THEN [ret |-> 0, e |-> e, fetched |-> TRUE]
    ELSE LET e1 == [e EXCEPT
                      !.underlying_ltp = resp.ltp,
                      !.underlying_bid = IF resp.has_bid_ask THEN resp.bid ELSE resp.ltp,
                      !.underlying_ask = IF resp.has_bid_ask THEN resp.ask ELSE resp.ltp]
         IN  IF resp.ltp > 0
             THEN LET a == PyRound(resp.ltp, strike_step) * strike_step
                  IN  [ret |-> a, e |-> [e1 EXCEPT !.atm_strike = a], fetched |-> TRUE]
             ELSE [ret |-> 0, e |-> e1, fetched |-> TRUE]

\* the OTM loop one iteration short
strike_list_short(atm) ==
    [j \in 1..HalfWidth |->
        LET i == HalfWidth + 1 - j
        IN  [strike |-> atm - i * strike_step, tag |-> "ITM" \o ToString(i),
             position |-> -i]]
    \o <<[strike |-> atm, tag |-> "ATM", position |-> 0]>>
    \o [i \in 1..(HalfWidth - 1) |->
        [strike |-> atm + i * strike_step, tag |-> "OTM" \o ToString(i),
         position |-> i]]

\* the local list `strikes` of generate_strikes
strike_list(atm) ==
    [j \in 1..HalfWidth |->
        LET i == HalfWidth + 1 - j
        IN  [strike |-> atm - i * strike_step, tag |-> "ITM" \o ToString(i),
             position |-> -i]]
    \o <<[strike |-> atm, tag |-> "ATM", position |-> 0]>>
    \o [i \in 1..HalfWidth |->
        [strike |-> atm + i * strike_step, tag |-> "OTM" \o ToString(i),
         position |-> i]]

new_row(strike_info) ==
    [strike |-> strike_info.strike,
     tag |-> strike_info.tag,
     position |-> strike_info.position,
     ce_symbol |-> construct_option_symbol(strike_info.strike, "CE"),
     pe_symbol |-> construct_option_symbol(strike_info.strike, "PE"),
     ce_data |-> ZeroQuote,
     pe_data |-> ZeroQuote]

\* generate_strikes past its guard: the strike list, the rows, the routing
write_rows(e) ==
    LET strikes == strike_list(e.atm_strike)
        n == Len(strikes)
        \* the dict assignments in program order; the last one to a key wins
        LastRow(s) == strikes[CHOOSE i \in 1..n :
                          /\ strikes[i].strike = s
                          /\ \A j \in (i+1)..n : strikes[j].strike # s]
        new_keys == {strikes[i].strike : i \in 1..n}
        od == [s \in (DOMAIN e.option_data) \cup new_keys |->
                 IF s \in new_keys THEN new_row(LastRow(s)) ELSE e.option_data[s]]
        \* subscription_map writes: 2i-1 is row i's ce_symbol, 2i its pe_symbol
        wsym(k) == IF k % 2 = 1 THEN od[strikes[(k + 1) \div 2].strike].ce_symbol
                   ELSE od[strikes[k \div 2].strike].pe_symbol
        went(k) == IF k % 2 = 1
                   THEN [strike |-> strikes[(k + 1) \div 2].strike, type |-> "CE"]
                   ELSE [strike |-> strikes[k \div 2].strike, type |-> "PE"]
        new_syms == {wsym(k) : k \in 1..(2 * n)}
        LastWrite(sym) == CHOOSE k \in 1..(2 * n) :
                             /\ wsym(k) = sym
                             /\ \A j \in (k+1)..(2 * n) : wsym(j) # sym
        sm == [sym \in (DOMAIN e.subscription_map) \cup new_syms |->
                 IF sym \in new_syms THEN went(LastWrite(sym))
                 ELSE e.subscription_map[sym]]
        appended == SelectSeq([i \in 1..n |-> strikes[i].strike],
                              LAMBDA s : s \notin DOMAIN e.option_data)
    IN  [e EXCEPT !.option_data = od,
                  !.subscription_map = sm,
                  !.key_order = @ \o appended]

\* the `if not self.atm_strike: return` guard left out
generate_strikes_unguarded(e) == write_rows(e)

generate_strikes(e) ==
    IF e.atm_strike = 0 THEN e ELSE write_rows(e)

subscribe_underlying_quote(w) ==
    IF websocket_manager
    THEN subscribe(w, [exchange |-> index_exchange, symbol |-> underlying,
                       mode |-> "quote"]).w
    ELSE w

\* the put of each row left out of the instrument list
batch_subscribe_options_calls_only(e, w) ==
    IF ~websocket_manager THEN w
    ELSE LET instruments ==
                 [k \in 1..Len(e.key_order) |->
                    [symbol |-> e.option_data[e.key_order[k]].ce_symbol,
                     exchange |-> option_exchange]]
         IN  subscribe_batch(w, instruments, "depth")

batch_subscribe_options(e, w) ==
    IF ~websocket_manager THEN w
    ELSE LET instruments ==
                 [k \in 1..(2 * Len(e.key_order)) |->
                    IF k % 2 = 1
                    THEN [symbol |-> e.option_data[e.key_order[(k + 1) \div 2]].ce_symbol,
                          exchange |-> option_exchange]
                    ELSE [symbol |-> e.option_data[e.key_order[k \div 2]].pe_symbol,
                          exchange |-> option_exchange]]
         IN  subscribe_batch(w, instruments, "depth")

setup_depth_subscriptions(e, w) ==
    IF ~websocket_manager THEN w
    ELSE LET w1 == register_handler(w, "depth", "handle_depth_update")
             w2 == register_handler(w1, "quote", "handle_quote_update")
             w3 == subscribe_underlying_quote(w2)
         IN  batch_subscribe_options(e, w3)

\* the window regenerated around the new ATM instead of the rows re-tagged
update_option_tags_regenerate(e) == generate_strikes(e)

update_option_tags(e) ==
    [e EXCEPT !.option_data =
        [s \in DOMAIN e.option_data |->
            LET position == get_strike_position(e.atm_strike, e.option_data[s].strike)
            IN  [e.option_data[s] EXCEPT !.position = position,
                                         !.tag = get_position_tag(position)]]]

\* the side merged into the stored dict, a field at a time and only where
\* the new value is set
update_option_depth_merging(e, strike, option_type, depth_data) ==
    IF strike \in DOMAIN e.option_data
    THEN LET merge(old) ==
                 [f \in DOMAIN old |-> IF depth_data[f] # 0 THEN depth_data[f] ELSE old[f]]
         IN  IF option_type = "CE"
             THEN [e EXCEPT !.option_data[strike].ce_data = merge(@)]
             ELSE [e EXCEPT !.option_data[strike].pe_data = merge(@)]
    ELSE e

\* both sides of the row overwritten
update_option_depth_both(e, strike, option_type, depth_data) ==
    IF strike \in DOMAIN e.option_data
    THEN [e EXCEPT !.option_data[strike].ce_data = depth_data,
                   !.option_data[strike].pe_data = depth_data]
    ELSE e

update_option_depth(e, strike, option_type, depth_data) ==
    IF strike \in DOMAIN e.option_data
    THEN IF option_type = "CE"
         THEN [e EXCEPT !.option_data[strike].ce_data = depth_data]
         ELSE [e EXCEPT !.option_data[strike].pe_data = depth_data]
    ELSE e

RECURSIVE SumSeq(_)
\* sum(...) over a sequence of numbers
SumSeq(seq) == IF seq = <<>> THEN 0 ELSE seq[1] + SumSeq(Tail(seq))

\* list(self.option_data.values()): the rows in insertion order
option_rows(e) == [i \in 1..Len(e.key_order) |-> e.option_data[e.key_order[i]]]

\* the ratio cut to two decimals instead of rounded
calculate_market_metrics_truncating(e) ==
    LET rows == option_rows(e)
        total_ce_volume == SumSeq([i \in DOMAIN rows |-> rows[i].ce_data.volume])
        total_pe_volume == SumSeq([i \in DOMAIN rows |-> rows[i].pe_data.volume])
        total_ce_oi == SumSeq([i \in DOMAIN rows |-> rows[i].ce_data.oi])
        total_pe_oi == SumSeq([i \in DOMAIN rows |-> rows[i].pe_data.oi])
    IN  [total_ce_volume |-> total_ce_volume,
         total_pe_volume |-> total_pe_volume,
         total_volume |-> total_ce_volume + total_pe_volume,
         total_ce_oi |-> total_ce_oi,
         total_pe_oi |-> total_pe_oi,
         pcr |-> IF total_ce_oi > 0 THEN (100 * total_pe_oi) \div total_ce_oi ELSE 0]

\* pcr is kept in hundredths: round(total_pe_oi / total_ce_oi, 2) * 100.  The
\* open-interest values of DepthPayloads give no ratio that lies halfway
\* between two hundredths, where a binary float's rounding could differ
calculate_market_metrics(e) ==
    LET rows == option_rows(e)
        total_ce_volume == SumSeq([i \in DOMAIN rows |-> rows[i].ce_data.volume])
        total_pe_volume == SumSeq([i \in DOMAIN rows |-> rows[i].pe_data.volume])
        total_ce_oi == SumSeq([i \in DOMAIN rows |-> rows[i].ce_data.oi])
        total_pe_oi == SumSeq([i \in DOMAIN rows |-> rows[i].pe_data.oi])
    IN  [total_ce_volume |-> total_ce_volume,
         total_pe_volume |-> total_pe_volume,
         total_volume |-> total_ce_volume + total_pe_volume,
         total_ce_oi |-> total_ce_oi,
         total_pe_oi |-> total_pe_oi,
         pcr |-> IF total_ce_oi > 0 THEN PyRound(100 * total_pe_oi, total_ce_oi) ELSE 0]

\* the dict get_option_chain builds (the wall-clock timestamp left out)
chain_data(e) ==
    [underlying |-> underlying,
     underlying_ltp |-> e.underlying_ltp,
     underlying_bid |-> e.underlying_bid,
     underlying_ask |-> e.underlying_ask,
     atm_strike |-> e.atm_strike,
     expiry |-> expiry,
     options |-> option_rows(e),
     market_metrics |-> calculate_market_metrics(e)]

\* no get_option_chain call has returned yet
NoSnapshot ==
    [taken |-> FALSE, shared |-> <<>>,
     data |-> [underlying |-> "", underlying_ltp |-> 0, underlying_bid |-> 0,
               underlying_ask |-> 0, atm_strike |-> 0, expiry |-> "",
               options |-> <<>>,
               market_metrics |-> [total_ce_volume |-> 0, total_pe_volume |-> 0,
                                   total_volume |-> 0, total_ce_oi |-> 0,
                                   total_pe_oi |-> 0, pcr |-> 0]],
     at_return |-> [underlying |-> "", underlying_ltp |-> 0, underlying_bid |-> 0,
               underlying_ask |-> 0, atm_strike |-> 0, expiry |-> "",
               options |-> <<>>,
               market_metrics |-> [total_ce_volume |-> 0, total_pe_volume |-> 0,
                                   total_volume |-> 0, total_ce_oi |-> 0,
                                   total_pe_oi |-> 0, pcr |-> 0]]]

\* What the holder of the returned dict sees after the step being taken.
\* data['options'] is a new list of the row dicts themselves, so entry i is
\* the object option_data holds (shared[i]) until generate_strikes assigns a
\* new dict to that strike.  update_option_tags and update_option_depth
\* assign into the row dict, which a shared entry shows; the numbers of the
\* header and the market_metrics dict belong to the returned dict alone.
held_snapshot ==
    IF ~snapshot.taken THEN snapshot
    ELSE LET replaced == IF last'.generated
                         THEN {strike_list(atm_strike')[i].strike :
                                  i \in 1..(2 * HalfWidth + 1)}
                         ELSE {}
             n == Len(snapshot.shared)
             still(i) == /\ snapshot.shared[i]
                         /\ snapshot.data.options[i].strike \notin replaced
         IN  [snapshot EXCEPT
                !.shared = [i \in 1..n |-> still(i)],
                !.data.options =
                    [i \in 1..n |->
                        IF still(i)
                        THEN option_data'[snapshot.data.options[i].strike]
                        ELSE snapshot.data.options[i]]]

\* the record of the call just made
Fresh ==
    /\ ~initialized
    /\ ~api_client
    /\ DOMAIN option_data = {}
    /\ DOMAIN subscription_map = {}
    /\ underlying_ltp = 0
    /\ atm_strike = 0

Call(op, ret, fetched, resp, data, generated, changed) ==
    [op |-> op, ret |-> ret,
     rest |-> IF fetched THEN Outcome(resp) ELSE "none",
     symbol |-> data.symbol, ltp |-> data.ltp,
     generated |-> generated,
     pre_initialized |-> initialized,
     pre_empty |-> (DOMAIN option_data = {}),
     pre_fresh |-> Fresh,
     pre_cached |-> (underlying_ltp > 0),
     atm_changed |-> changed]

\* initialize past its `if self.initialized` guard
run_initialize(resp) ==
    LET e0 == [Engine EXCEPT !.api_client = TRUE]
        c == calculate_atm(e0, resp)
        e1 == generate_strikes(c.e)
        w1 == setup_depth_subscriptions(e1, Conn)
    IN  /\ SetEngine(e1)
        /\ SetConn(w1)
        /\ initialized' = TRUE
        /\ last' = Call("initialize", "True", c.fetched, resp, NoData,
                        e1.atm_strike # 0, e1.atm_strike # atm_strike)
        /\ UNCHANGED fixed_vars

\* the `if self.initialized` guard left out
initialize_unguarded(resp) == run_initialize(resp)

initialize(resp) ==
    IF initialized
    THEN /\ last' = Call("initialize", "True", FALSE, resp, NoData, FALSE, FALSE)
         /\ UNCHANGED <<engine_vars, conn_vars, fixed_vars, initialized>>
    ELSE run_initialize(resp)

handle_quote_update(data, resp) ==
    IF data.symbol = underlying /\ data.ltp # 0
    THEN LET e0 == [Engine EXCEPT !.underlying_ltp = data.ltp]
             old_atm == e0.atm_strike
             c == calculate_atm(e0, resp)
             \* self.atm_strike = self.calculate_atm()
             e1 == [c.e EXCEPT !.atm_strike = c.ret]
             changed == old_atm # e1.atm_strike
             was_empty == DOMAIN e1.option_data = {}
             e2 == IF ~changed THEN e1
                   ELSE IF was_empty THEN generate_strikes(e1)
                   ELSE update_option_tags(e1)
             w1 == IF changed /\ was_empty /\ websocket_manager /\ authenticated
                   THEN batch_subscribe_options(e2, Conn)
                   ELSE Conn
             e3 == [e2 EXCEPT !.underlying_bid = data.bid,
                              !.underlying_ask = data.ask]
         IN  /\ SetEngine(e3)
             /\ SetConn(w1)
             /\ last' = Call("quote", "None", c.fetched, resp, data,
                             changed /\ was_empty /\ e1.atm_strike # 0, changed)
             /\ UNCHANGED <<fixed_vars, initialized>>
    ELSE /\ last' = Call("quote", "None", FALSE, resp, data, FALSE, FALSE)
         /\ UNCHANGED <<engine_vars, conn_vars, fixed_vars, initialized>>

\* the spread left at its initial 0
build_depth_data_no_spread(data) ==
    [ltp |-> data.ltp,
     bid |-> IF data.bids # <<>> /\ Len(data.bids[1]) >= 2 THEN data.bids[1][1] ELSE 0,
     ask |-> IF data.asks # <<>> /\ Len(data.asks[1]) >= 2 THEN data.asks[1][1] ELSE 0,
     bid_qty |-> IF data.bids # <<>> /\ Len(data.bids[1]) >= 2 THEN data.bids[1][2] ELSE 0,
     ask_qty |-> IF data.asks # <<>> /\ Len(data.asks[1]) >= 2 THEN data.asks[1][2] ELSE 0,
     spread |-> 0, volume |-> data.volume, oi |-> data.oi]

\* the dict `depth_data` handle_depth_update builds from a tick: best bid and
\* ask from the first level of each list, then the spread
build_depth_data(data) ==
    LET bids == data.bids
        asks == data.asks
        best_bid == IF bids # <<>> /\ Len(bids[1]) >= 2 THEN bids[1][1] ELSE 0
        bid_qty == IF bids # <<>> /\ Len(bids[1]) >= 2 THEN bids[1][2] ELSE 0
        best_ask == IF asks # <<>> /\ Len(asks[1]) >= 2 THEN asks[1][1] ELSE 0
        ask_qty == IF asks # <<>> /\ Len(asks[1]) >= 2 THEN asks[1][2] ELSE 0
        d0 == [ltp |-> data.ltp, bid |-> best_bid, ask |-> best_ask,
               bid_qty |-> bid_qty, ask_qty |-> ask_qty, spread |-> 0,
               volume |-> data.volume, oi |-> data.oi]
    IN  IF d0.bid > 0 /\ d0.ask > 0
        THEN [d0 EXCEPT !.spread = d0.ask - d0.bid]
        ELSE d0

handle_depth_update(data) ==
    IF data.symbol \in DOMAIN subscription_map
    THEN LET strike_info == subscription_map[data.symbol]
             depth_data == build_depth_data(data)
         IN  /\ SetEngine(update_option_depth(Engine, strike_info.strike,
                                              strike_info.type, depth_data))
             /\ last' = Call("depth", "None", FALSE, NoResp, data, FALSE, FALSE)
             /\ UNCHANGED <<conn_vars, fixed_vars, initialized>>
    ELSE /\ last' = Call("depth", "None", FALSE, NoResp, data, FALSE, FALSE)
         /\ UNCHANGED <<engine_vars, conn_vars, fixed_vars, initialized>>

get_option_chain ==
    LET data == chain_data(Engine)
    IN  /\ snapshot' = [taken |-> TRUE,
                        shared |-> [i \in 1..Len(data.options) |-> TRUE],
                        data |-> data,
                        at_return |-> data]
        /\ last' = Call("snapshot", "dict", FALSE, NoResp, NoData, FALSE, FALSE)
        /\ UNCHANGED <<engine_vars, conn_vars, fixed_vars, initialized>>

\* inbound ticks
\* the socket thread is in no handler
NoWriter ==
    [pc |-> "idle", i |-> 0, position |-> 0, bid |-> 0, ask |-> 0,
     strike |-> 0, type |-> "", depth_data |-> ZeroQuote]

\* the request thread has read no row yet
NoReader ==
    [seen |-> FALSE, during |-> "idle",
     row |-> [strike |-> 0, tag |-> "", position |-> 0, ce_symbol |-> "",
              pe_symbol |-> "", ce_data |-> ZeroQuote, pe_data |-> ZeroQuote]]

\* a tick of the underlying with a price above 20 carries bid and ask around
\* it; the other ticks carry neither, which the handler reads as 0
QuoteTicks ==
    {[symbol |-> underlying, ltp |-> ltp,
      bid |-> IF ltp > 20 THEN ltp - 1 ELSE 0,
      ask |-> IF ltp > 20 THEN ltp + 1 ELSE 0] : ltp \in QuoteLtps(strike_step)}
    \cup {[symbol |-> OtherSymbol, ltp |-> 80000, bid |-> 79999, ask |-> 80001]}

\* the answers of the REST collaborator a call can meet: one per outcome when
\* the call reaches api_client.quotes, none otherwise
Answers(reaches) == IF reaches THEN RestResponses ELSE {NoResp}

DepthSymbols ==
    {construct_option_symbol(k, t) : k \in DepthStrikes, t \in {"CE", "PE"}}
    \cup {UnknownSymbol}

\* every payload for the call of a strike, the two uncrossed ones for its
\* put, one for the symbol no row has
DepthTicks ==
    {[symbol |-> t[1], ltp |-> t[2].ltp, bids |-> t[2].bids, asks |-> t[2].asks,
      volume |-> t[2].volume, oi |-> t[2].oi] :
        t \in {u \in DepthSymbols \X DepthPayloads :
                 \/ \E k \in DepthStrikes : u[1] = construct_option_symbol(k, "CE")
                 \/ /\ \E k \in DepthStrikes : u[1] = construct_option_symbol(k, "PE")
                    /\ u[2].ltp \in {120, 95}
                 \/ /\ u[1] = UnknownSymbol
                    /\ u[2].ltp = 120}}

Init ==
    /\ underlying \in Underlyings
    /\ expiry \in Expiries
    /\ strike_step = IF underlying = "NIFTY" THEN 50 ELSE 100
    /\ option_data = EmptyDict
    /\ key_order = <<>>
    /\ subscription_map = EmptyDict
    /\ underlying_ltp = 0
    /\ underlying_bid = 0
    /\ underlying_ask = 0
    /\ atm_strike = 0
    /\ api_client = FALSE
    /\ initialized = FALSE
    \* the connection handed to the constructor: none, or one that connect()
    \* has been called on and that has or has not been authenticated yet
    /\ websocket_manager \in BOOLEAN
    /\ ws = websocket_manager
    /\ authenticated \in (IF websocket_manager THEN BOOLEAN ELSE {FALSE})
    /\ subscriptions = {}
    /\ quote_handlers = <<>>
    /\ depth_handlers = <<>>
    /\ ltp_handlers = <<>>
    \* get_or_create_websocket_manager hands over only a manager that is active
    /\ active = websocket_manager
    /\ sock = IF websocket_manager THEN "open" ELSE "none"
    /\ sent = <<>>
    /\ connecting = FALSE
    /\ requested = {}
    /\ auth_seen = [success |-> authenticated,
                    last |-> IF authenticated THEN "success" ELSE "none"]
    /\ event = NoEvent
    /\ snapshot = NoSnapshot
    /\ writer = NoWriter
    /\ reader = NoReader
    /\ last = [op |-> "none", ret |-> "None", rest |-> "none", symbol |-> "",
               ltp |-> 0, generated |-> FALSE, pre_initialized |-> FALSE,
               pre_empty |-> TRUE, pre_fresh |-> TRUE, pre_cached |-> FALSE,
               atm_changed |-> FALSE]

Initialize ==
    /\ \E resp \in Answers(~initialized /\ underlying_ltp <= 0) : initialize(resp)
    /\ snapshot' = held_snapshot
    /\ UNCHANGED <<caller_vars, thread_vars>>

OnQuoteUpdate ==
    /\ \E data \in QuoteTicks :
          \E resp \in Answers(data.symbol = underlying /\ data.ltp < 0 /\ api_client) :
              handle_quote_update(data, resp)
    /\ snapshot' = held_snapshot
    /\ UNCHANGED <<caller_vars, thread_vars>>

OnDepthUpdate ==
    /\ \E data \in DepthTicks : handle_depth_update(data)
    /\ snapshot' = held_snapshot
    /\ UNCHANGED <<caller_vars, thread_vars>>

Next ==
    \/ Initialize
    \/ OnQuoteUpdate
    \/ OnDepthUpdate

Spec == Init /\ [][Next]_vars

-----------------------------------------------------------------------------
(* The engine with a reader: get_option_chain calls between the other calls, *)
(* for one underlying and an engine that was given no connection            *)

\* quote ticks of the reader specification: the underlying at a price inside
\* the generated window and at one more than HalfWidth steps above it
SnapshotQuoteTicks == {t \in QuoteTicks : t.ltp \in {24537, 27000}}

\* depth ticks of the reader specification: the symbols of rows only, with
\* the two payloads of different open interest (500 and 300)
SnapshotDepthTicks ==
    {t \in DepthTicks : t.symbol # UnknownSymbol /\ t.ltp \in {120, 95}}

SnapshotInit ==
    /\ Init
    /\ underlying = "NIFTY"
    /\ ~websocket_manager

ReaderQuoteUpdate ==
    /\ \E data \in SnapshotQuoteTicks : handle_quote_update(data, NoResp)
    /\ snapshot' = held_snapshot
    /\ UNCHANGED <<caller_vars, thread_vars>>

ReaderDepthUpdate ==
    /\ \E data \in SnapshotDepthTicks : handle_depth_update(data)
    /\ snapshot' = held_snapshot
    /\ UNCHANGED <<caller_vars, thread_vars>>

GetSnapshot ==
    /\ get_option_chain
    /\ UNCHANGED <<caller_vars, thread_vars>>

SnapshotNext ==
    \/ Initialize
    \/ ReaderQuoteUpdate
    \/ ReaderDepthUpdate
    \/ GetSnapshot

SnapshotSpec == SnapshotInit /\ [][SnapshotNext]_vars

-----------------------------------------------------------------------------
(* The connection on its own: one ProfessionalWebSocketManager, its callers  *)
(* (connect, subscribe, subscribe_batch, register_handler) and the callbacks *)
(* of its socket thread (on_open, on_message, on_error, on_close).  connect  *)
(* is called once, as get_or_create_websocket_manager does; the socket       *)
(* thread runs during connect's wait, so connect is two steps.               *)

\* the state of the specification's connection state machine
ConnState ==
    IF sock = "none" THEN "Disconnected"
    ELSE IF sock = "connecting" THEN "Connecting"
    ELSE IF sock \in {"failed", "closed"} THEN "Closed"
    ELSE IF authenticated THEN "Authenticated"
    ELSE "Open"

Event(op, ret, sub, msg, mode, delivered) ==
    [op |-> op, ret |-> ret, sub |-> sub, msg |-> msg, mode |-> mode,
     delivered |-> delivered, pre_state |-> ConnState, sent_before |-> Len(sent)]

\* the orders in which a set can be iterated
Orders(S) ==
    {o \in [1..Cardinality(S) -> S] : \A i, j \in 1..Cardinality(S) : o[i] = o[j] => i = j}

engine_idle ==
    UNCHANGED <<engine_vars, fixed_vars, initialized, snapshot, thread_vars, last>>

ConnInit ==
    /\ Init
    /\ underlying = "NIFTY"
    /\ ~websocket_manager

Connect ==
    /\ ~ws
    /\ ~connecting
    /\ \E fails \in BOOLEAN :
          /\ SetConn(connect_start(Conn, fails))
          /\ connecting' = ~fails
          /\ event' = Event("connect", IF fails THEN "False" ELSE "waiting",
                            NoSub, NoMsg, "none", <<>>)
    /\ auth_seen' = [success |-> FALSE, last |-> "none"]
    /\ UNCHANGED requested
    /\ engine_idle

ConnectReturn ==
    /\ connecting
    /\ SetConn(connect_finish(Conn))
    /\ connecting' = FALSE
    /\ event' = Event("connect_return", "True", NoSub, NoMsg, "none", <<>>)
    /\ UNCHANGED <<requested, auth_seen>>
    /\ engine_idle

OnOpen ==
    /\ sock = "connecting"
    /\ Len(sent) < MaxSent
    /\ SetConn(on_open([Conn EXCEPT !.sock = "open"]))
    /\ event' = Event("on_open", "None", NoSub, NoMsg, "none", <<>>)
    /\ UNCHANGED <<connecting, requested, auth_seen>>
    /\ engine_idle

OnMessage ==
    /\ sock = "open"
    /\ \E msg \in Messages, order \in Orders(subscriptions) :
          LET handlers == IF mode_of(market_data_keys(msg)) = "depth" THEN depth_handlers
                          ELSE IF mode_of(market_data_keys(msg)) = "quote" THEN quote_handlers
                          ELSE <<>>
          IN  \E raising \in SUBSET (DOMAIN handlers) :
                LET r == on_message(Conn, msg, order, raising)
                IN  /\ Len(r.w.sent) <= MaxSent
                    /\ SetConn(r.w)
                    /\ event' = Event("on_message", "None", NoSub, msg, r.mode, r.delivered)
                    /\ auth_seen' =
                          IF msg.malformed \/ msg.type # "auth" THEN auth_seen
                          ELSE IF msg.status = "success"
                          THEN [success |-> TRUE, last |-> "success"]
                          ELSE [auth_seen EXCEPT !.last = "failure"]
    /\ UNCHANGED <<connecting, requested>>
    /\ engine_idle

OnError ==
    /\ sock \in {"connecting", "open"}
    /\ SetConn(on_error([Conn EXCEPT !.sock = "failed"]))
    /\ event' = Event("on_error", "None", NoSub, NoMsg, "none", <<>>)
    /\ UNCHANGED <<connecting, requested, auth_seen>>
    /\ engine_idle

OnClose ==
    /\ sock \in {"connecting", "open", "failed"}
    /\ SetConn(on_close([Conn EXCEPT !.sock = "closed"]))
    /\ event' = Event("on_close", "None", NoSub, NoMsg, "none", <<>>)
    /\ UNCHANGED <<connecting, requested, auth_seen>>
    /\ engine_idle

Subscribe ==
    /\ Len(sent) < MaxSent
    /\ \E sub \in SubscriptionRequests :
          LET r == subscribe(Conn, sub)
          IN  /\ SetConn(r.w)
              /\ requested' = requested \cup {sub}
              /\ event' = Event("subscribe",
                                IF r.raised THEN "raised"
                                ELSE IF r.ret THEN "True" ELSE "False",
                                sub, NoMsg, "none", <<>>)
    /\ UNCHANGED <<connecting, auth_seen>>
    /\ engine_idle

SubscribeBatch ==
    /\ Len(sent) + Len(BatchInstruments) <= MaxSent
    /\ LET first == [symbol |-> BatchInstruments[1].symbol,
                     exchange |-> BatchInstruments[1].exchange, mode |-> "depth"]
       IN  /\ SetConn(subscribe_batch(Conn, BatchInstruments, "depth"))
           /\ requested' = requested \cup
                  {[symbol |-> BatchInstruments[i].symbol,
                    exchange |-> BatchInstruments[i].exchange,
                    mode |-> "depth"] : i \in DOMAIN BatchInstruments}
           /\ event' = Event("subscribe_batch",
                             IF subscribe(Conn, first).raised THEN "raised" ELSE "None",
                             first, NoMsg, "none", <<>>)
    /\ UNCHANGED <<connecting, auth_seen>>
    /\ engine_idle

RegisterHandler ==
    /\ Len(quote_handlers) + Len(depth_handlers) + Len(ltp_handlers) < MaxHandlers
    /\ \E mode \in {"quote", "depth", "ltp"} :
          LET handler == "handler" \o ToString(Len(quote_handlers) + Len(depth_handlers)
                                                 + Len(ltp_handlers) + 1)
          IN  /\ SetConn(register_handler(Conn, mode, handler))
              /\ event' = Event("register_handler", "None", NoSub, NoMsg, mode, <<>>)
    /\ UNCHANGED <<connecting, requested, auth_seen>>
    /\ engine_idle

ConnNext ==
    \/ Connect
    \/ ConnectReturn
    \/ OnOpen
    \/ OnMessage
    \/ OnError
    \/ OnClose
    \/ Subscribe
    \/ SubscribeBatch
    \/ RegisterHandler

ConnSpec == ConnInit /\ [][ConnNext]_vars

-----------------------------------------------------------------------------
(* The engine with its two threads.  The socket thread runs the handlers    *)
(* that initialize registered, one message at a time; the request thread    *)
(* runs get_option_chain and serialises what it returned.  Nothing in the   *)
(* engine takes a lock, so the socket thread can be suspended between any   *)
(* two statements of a handler: a handler is split at every store to state  *)
(* the other thread can read.  A read of one row by the request thread is   *)
(* taken as one step.                                                       *)

\* quote ticks of the two-thread specification: the underlying at two prices
\* with different ATM strikes
RaceQuoteTicks == {t \in QuoteTicks : t.symbol = underlying /\ t.ltp \in {24537, 27000}}

\* depth ticks of the two-thread specification: the call of the strike, with
\* the two-sided book and the book without bids
RaceDepthTicks ==
    {t \in DepthTicks : /\ \E k \in DepthStrikes :
                             t.symbol = construct_option_symbol(k, "CE")
                        /\ t.ltp \in {120, 95}}

\* the rows whose reads are followed
ReadStrikes == DepthStrikes

RaceInit ==
    /\ Init
    /\ underlying = "NIFTY"
    /\ websocket_manager

\* initialize on the request thread, before any handler is registered
RaceInitialize ==
    /\ ~initialized
    /\ \E resp \in Answers(underlying_ltp <= 0) : initialize(resp)
    /\ snapshot' = held_snapshot
    /\ UNCHANGED <<caller_vars, thread_vars>>

\* handle_quote_update up to its call of update_option_tags: the price and
\* the ATM are stored, and an empty grid is generated
QuoteUpdateBegin ==
    /\ initialized
    /\ writer.pc = "idle"
    /\ \E data \in RaceQuoteTicks :
          LET e0 == [Engine EXCEPT !.underlying_ltp = data.ltp]
              c == calculate_atm(e0, NoResp)
              e1 == [c.e EXCEPT !.atm_strike = c.ret]
              changed == atm_strike # e1.atm_strike
              was_empty == DOMAIN e1.option_data = {}
              e2 == IF changed /\ was_empty THEN generate_strikes(e1) ELSE e1
              w1 == IF changed /\ was_empty /\ websocket_manager /\ authenticated
                    THEN batch_subscribe_options(e2, Conn)
                    ELSE Conn
              tags == changed /\ ~was_empty
          IN  /\ SetEngine(e2)
              /\ SetConn(w1)
              /\ writer' = [NoWriter EXCEPT !.pc = IF tags THEN "position" ELSE "bidask",
                                            !.i = IF tags THEN 1 ELSE 0,
                                            !.bid = data.bid,
                                            !.ask = data.ask]
    /\ UNCHANGED <<fixed_vars, initialized, caller_vars, snapshot, reader, last>>

\* update_option_tags, row i: strike_data['position'] = position
TagStorePosition ==
    /\ writer.pc = "position"
    /\ LET k == key_order[writer.i]
           position == get_strike_position(atm_strike, option_data[k].strike)
       IN  /\ option_data' = [option_data EXCEPT ![k].position = position]
           /\ writer' = [writer EXCEPT !.pc = "tag", !.position = position]
    /\ UNCHANGED <<key_order, subscription_map, underlying_ltp, underlying_bid,
                   underlying_ask, atm_strike, api_client, conn_vars, fixed_vars,
                   initialized, caller_vars, snapshot, reader, last>>

\* update_option_tags, row i: strike_data['tag'] = get_position_tag(position),
\* then the next row or the end of the loop
TagStoreTag ==
    /\ writer.pc = "tag"
    /\ LET k == key_order[writer.i]
       IN  option_data' = [option_data EXCEPT ![k].tag = get_position_tag(writer.position)]
    /\ writer' = IF writer.i < Len(key_order)
                 THEN [writer EXCEPT !.pc = "position", !.i = writer.i + 1]
                 ELSE [writer EXCEPT !.pc = "bidask", !.i = 0]
    /\ UNCHANGED <<key_order, subscription_map, underlying_ltp, underlying_bid,
                   underlying_ask, atm_strike, api_client, conn_vars, fixed_vars,
                   initialized, caller_vars, snapshot, reader, last>>

\* the end of handle_quote_update: bid and ask of the underlying
QuoteUpdateEnd ==
    /\ writer.pc = "bidask"
    /\ underlying_bid' = writer.bid
    /\ underlying_ask' = writer.ask
    /\ writer' = NoWriter
    /\ UNCHANGED <<option_data, key_order, subscription_map, underlying_ltp,
                   atm_strike, api_client, conn_vars, fixed_vars, initialized,
                   caller_vars, snapshot, reader, last>>

\* handle_depth_update up to its call of update_option_depth: the dict
\* depth_data is built, spread included, and only this thread refers to it
DepthUpdateBuild ==
    /\ initialized
    /\ writer.pc = "idle"
    /\ \E data \in RaceDepthTicks :
          /\ data.symbol \in DOMAIN subscription_map
          /\ writer' = [NoWriter EXCEPT !.pc = "store",
                                        !.strike = subscription_map[data.symbol].strike,
                                        !.type = subscription_map[data.symbol].type,
                                        !.depth_data = build_depth_data(data)]
    /\ UNCHANGED <<engine_vars, conn_vars, fixed_vars, initialized, caller_vars,
                   snapshot, reader, last>>

\* the call of update_option_depth that ends handle_depth_update
DepthUpdateStore ==
    /\ writer.pc = "store"
    /\ SetEngine(update_option_depth(Engine, writer.strike, writer.type,
                                     writer.depth_data))
    /\ writer' = NoWriter
    /\ UNCHANGED <<conn_vars, fixed_vars, initialized, caller_vars, snapshot,
                   reader, last>>

\* the request thread reads one row of the list get_option_chain returned,
\* which holds the row dicts of option_data themselves
ReadRow ==
    /\ initialized
    /\ \E k \in ReadStrikes \cap DOMAIN option_data :
          reader' = [seen |-> TRUE, during |-> writer.pc, row |-> option_data[k]]
    /\ UNCHANGED <<engine_vars, conn_vars, fixed_vars, initialized, caller_vars,
                   snapshot, writer, last>>

RaceNext ==
    \/ RaceInitialize
    \/ QuoteUpdateBegin
    \/ TagStorePosition
    \/ TagStoreTag
    \/ QuoteUpdateEnd
    \/ DepthUpdateBuild
    \/ DepthUpdateStore
    \/ ReadRow

RaceSpec == RaceInit /\ [][RaceNext]_vars

-----------------------------------------------------------------------------
(* Properties *)

FailedOutcomes == {"raised", "error", "nonpositive"}

Abs(x) == IF x < 0 THEN -x ELSE x

Rows == DOMAIN option_data

\* the tag the specification gives the row k steps from ATM
TagOf(k) ==
    IF k = 0 THEN "ATM"
    ELSE IF k > 0 THEN "OTM" \o ToString(k)
    ELSE "ITM" \o ToString(-k)

\* a is the multiple of step nearest to p, the even multiple on a tie
IsRounded(a, p, step) ==
    /\ a % step = 0
    /\ 2 * Abs(a - p) <= step
    /\ (2 * Abs(a - p) = step) => ((a \div step) % 2 = 0)

\* C1: initialize on an engine that is already initialized returns True and
\* changes nothing: rows, routing, ATM, underlying fields, registered handlers,
\* recorded subscriptions and sent messages are all as before, and no quote
\* is fetched.
C1_InitializeIdempotent ==
    [][(initialized /\ last'.op = "initialize") =>
          /\ UNCHANGED <<engine_vars, conn_vars, fixed_vars, initialized>>
          /\ last'.ret = "True"
          /\ last'.rest = "none"]_vars

C1_Witness ==
    /\ last.op = "initialize"
    /\ last.pre_initialized
    /\ Rows # {}
    /\ Len(sent) > 0
    /\ Len(depth_handlers) = 1

\* C2: initialize with no cached underlying LTP whose quote fetch raises,
\* answers with a non-success status or yields a non-positive LTP does not
\* return success.  (No modelled path of initialize raises.)
C2_InitializeReportsFetchFailure ==
    (last.op = "initialize" /\ ~last.pre_cached /\ last.rest \in FailedOutcomes)
        => last.ret # "True"

\* C3: after initialize on a fresh engine whose quote fetch failed or yielded
\* a non-positive LTP, atm_strike is 0, there are no rows, the routing table
\* is empty, and nothing but the underlying has been subscribed.
C3_FailedFetchLeavesGridEmpty ==
    (last.op = "initialize" /\ last.pre_fresh /\ last.rest \in FailedOutcomes) =>
        /\ atm_strike = 0
        /\ Rows = {}
        /\ key_order = <<>>
        /\ DOMAIN subscription_map = {}
        /\ \A i \in 1..Len(sent) : sent[i].symbol = underlying /\ sent[i].mode = 2
        /\ \A sub \in subscriptions : sub.symbol = underlying

C3_Witness ==
    /\ last.op = "initialize"
    /\ last.pre_fresh
    /\ last.rest = "error"
    /\ authenticated
    /\ Len(sent) = 1

\* C4: a grid generation (in initialize or in a quote update on an empty grid)
\* for ATM = round(P / S) * S # 0 writes exactly the 41 rows at ATM + k * S,
\* k in -20..20, the row at offset k with position k and tag ITM|k|, ATM or
\* OTMk and zero quotes; on an empty grid these are all the rows: one ATM,
\* 20 ITM and 20 OTM.  For NIFTY at 24537: ATM 24550, 24500 ITM1, 24600 OTM1.
C4_GridGeneration ==
    last.generated =>
        LET A == atm_strike
            S == strike_step
            Window == {A + k * S : k \in -20..20}
        IN  /\ A # 0
            /\ IsRounded(A, underlying_ltp, S)
            /\ Cardinality(Window) = 41
            /\ Window \subseteq Rows
            /\ \A k \in -20..20 :
                  LET row == option_data[A + k * S]
                  IN  /\ row.strike = A + k * S
                      /\ row.position = k
                      /\ row.tag = TagOf(k)
                      /\ row.ce_data = ZeroQuote
                      /\ row.pe_data = ZeroQuote
            /\ last.pre_empty =>
                  /\ Rows = Window
                  /\ Len(key_order) = 41
                  /\ Cardinality({s \in Rows : option_data[s].tag = "ATM"}) = 1
                  /\ Cardinality({s \in Rows : option_data[s].tag \in
                                    {"ITM" \o ToString(i) : i \in 1..20}}) = 20
                  /\ Cardinality({s \in Rows : option_data[s].tag \in
                                    {"OTM" \o ToString(i) : i \in 1..20}}) = 20
            /\ (underlying = "NIFTY" /\ underlying_ltp = 24537) =>
                  /\ A = 24550
                  /\ option_data[24550].tag = "ATM"
                  /\ option_data[24500].tag = "ITM1"
                  /\ option_data[24600].tag = "OTM1"

C4_Witness ==
    /\ last.generated
    /\ last.pre_empty
    /\ underlying = "NIFTY"
    /\ underlying_ltp = 24537
    /\ atm_strike = 24550
    /\ Cardinality(Rows) = 41

\* C5: whenever there are rows (ATM has then been computed), exactly one row
\* has tag ATM.
C5_ExactlyOneATMRow ==
    (Rows # {}) => Cardinality({s \in Rows : option_data[s].tag = "ATM"}) = 1

\* C6: atm_strike is always a multiple of strike_step, and after a quote
\* update of the underlying with LTP P > 0 it is round(P / strike_step) *
\* strike_step: the multiple nearest to P, the even multiple on a tie.
C6_ATMIsRoundedMultiple ==
    /\ atm_strike % strike_step = 0
    /\ (last.op = "quote" /\ last.symbol = underlying /\ last.ltp > 0) =>
          /\ underlying_ltp = last.ltp
          /\ IsRounded(atm_strike, last.ltp, strike_step)

C6_Witness ==
    /\ last.op = "quote"
    /\ last.symbol = underlying
    /\ last.ltp > 0
    /\ atm_strike # 0
    /\ 2 * Abs(atm_strike - last.ltp) = strike_step

\* C7: after a quote update that changed ATM on a non-empty grid, every row
\* has position = floor((strike - ATM) / strike_step) and the tag of that
\* position, whatever the new ATM is.
C7_RetagByFloor ==
    (last.op = "quote" /\ last.atm_changed /\ ~last.pre_empty) =>
        \A s \in Rows :
            /\ option_data[s].position =
                   (option_data[s].strike - atm_strike) \div strike_step
            /\ option_data[s].tag = TagOf(option_data[s].position)

\* C8: a quote update on a non-empty grid adds and removes no row and leaves
\* every row's strike, symbols and both quotes, and the routing table, as
\* they were; only tag and position may change.
C8_QuoteUpdateKeepsRows ==
    [][(last'.op = "quote" /\ Rows # {}) =>
          /\ DOMAIN option_data' = Rows
          /\ key_order' = key_order
          /\ subscription_map' = subscription_map
          /\ \A s \in Rows :
                /\ option_data'[s].strike = option_data[s].strike
                /\ option_data'[s].ce_symbol = option_data[s].ce_symbol
                /\ option_data'[s].pe_symbol = option_data[s].pe_symbol
                /\ option_data'[s].ce_data = option_data[s].ce_data
                /\ option_data'[s].pe_data = option_data[s].pe_data]_vars

C8_Witness ==
    /\ last.op = "quote"
    /\ ~last.pre_empty
    /\ last.atm_changed
    /\ atm_strike # 0
    /\ atm_strike \notin Rows
    /\ \E s \in Rows : option_data[s].ce_data # ZeroQuote

\* C9: a depth update whose symbol is a row's ce_symbol (pe_symbol) replaces
\* that row's ce_data (pe_data) and nothing else: the row's other side, tag,
\* position and symbols, every other row, the routing table, ATM, the
\* underlying fields and the connection are unchanged; a symbol that is not
\* in the routing table changes nothing.
C9_DepthUpdateOneCell ==
    [][(last'.op = "depth") =>
          /\ UNCHANGED <<subscription_map, key_order, underlying_ltp, underlying_bid,
                         underlying_ask, atm_strike, api_client, initialized,
                         conn_vars, fixed_vars>>
          /\ DOMAIN option_data' = Rows
          /\ IF last'.symbol \in DOMAIN subscription_map
             THEN LET t == subscription_map[last'.symbol]
                      old == option_data[t.strike]
                      new == option_data'[t.strike]
                  IN  /\ \A s \in Rows \ {t.strike} : option_data'[s] = option_data[s]
                      /\ new.strike = old.strike
                      /\ new.tag = old.tag
                      /\ new.position = old.position
                      /\ new.ce_symbol = old.ce_symbol
                      /\ new.pe_symbol = old.pe_symbol
                      /\ IF old.ce_symbol = last'.symbol
                         THEN /\ t.type = "CE"
                              /\ new.pe_data = old.pe_data
                              /\ new.ce_data.ltp = last'.ltp
                         ELSE /\ t.type = "PE"
                              /\ old.pe_symbol = last'.symbol
                              /\ new.ce_data = old.ce_data
                              /\ new.pe_data.ltp = last'.ltp
             ELSE option_data' = option_data]_vars

C9_Witness ==
    /\ last.op = "depth"
    /\ last.symbol \in DOMAIN subscription_map
    /\ LET t == subscription_map[last.symbol]
       IN  /\ t.type = "CE"
           /\ option_data[t.strike].ce_data.ltp = last.ltp
           /\ option_data[t.strike].pe_data # ZeroQuote
           /\ option_data[t.strike].pe_data.ltp # last.ltp

\* C10: every symbol of the routing table maps to the strike of a row, and
\* the table holds exactly two distinct symbols per row: the row's ce_symbol
\* mapped to (strike, CE) and its pe_symbol mapped to (strike, PE).
C10_RoutingMatchesRows ==
    /\ \A sym \in DOMAIN subscription_map : subscription_map[sym].strike \in Rows
    /\ \A s \in Rows :
          /\ option_data[s].ce_symbol # option_data[s].pe_symbol
          /\ option_data[s].ce_symbol \in DOMAIN subscription_map
          /\ option_data[s].pe_symbol \in DOMAIN subscription_map
          /\ subscription_map[option_data[s].ce_symbol] = [strike |-> s, type |-> "CE"]
          /\ subscription_map[option_data[s].pe_symbol] = [strike |-> s, type |-> "PE"]
    /\ DOMAIN subscription_map =
          UNION {{option_data[s].ce_symbol, option_data[s].pe_symbol} : s \in Rows}
    /\ Cardinality(DOMAIN subscription_map) = 2 * Cardinality(Rows)

C10_Witness ==
    /\ Cardinality(Rows) > 41
    /\ Cardinality(DOMAIN subscription_map) = 2 * Cardinality(Rows)

Sides(s) == {option_data[s].ce_data, option_data[s].pe_data}

\* C11: in every reachable state, each side of each row has spread = ask - bid
\* when bid > 0 and ask > 0, and spread = 0 otherwise.
C11_SpreadComputed ==
    \A s \in Rows : \A q \in Sides(s) :
        q.spread = IF q.bid > 0 /\ q.ask > 0 THEN q.ask - q.bid ELSE 0

C11_Witness ==
    /\ last.op = "depth"
    /\ \E s \in Rows :
          /\ option_data[s].ce_data.bid > 0
          /\ option_data[s].ce_data.ask > 0
          /\ option_data[s].ce_data.spread # 0
          /\ option_data[s].pe_data.ask > 0
          /\ option_data[s].pe_data.bid = 0
          /\ option_data[s].pe_data.spread = 0

\* C12: in every reachable state every field of each side of each row (ltp,
\* bid, ask, bid_qty, ask_qty, spread, volume, oi) is non-negative, the depth
\* ticks carrying only positive bid and ask prices and sizes.
C12_SideQuoteNonNegative ==
    \A s \in Rows : \A q \in Sides(s) :
        /\ q.ltp >= 0
        /\ q.bid >= 0
        /\ q.ask >= 0
        /\ q.bid_qty >= 0
        /\ q.ask_qty >= 0
        /\ q.spread >= 0
        /\ q.volume >= 0
        /\ q.oi >= 0

RECURSIVE SumFn(_)
\* the sum of the values of a function with a finite domain
SumFn(f) ==
    IF DOMAIN f = {} THEN 0
    ELSE LET k == CHOOSE x \in DOMAIN f : TRUE
         IN  f[k] + SumFn([x \in (DOMAIN f) \ {k} |-> f[x]])

\* C13: the market metrics a get_option_chain call returns are those of the
\* rows at the time of the call: the four totals are the sums of ce/pe volume
\* and oi over all rows, total_volume is the sum of the two volume totals,
\* pcr is 0 when total_ce_oi is 0 whatever total_pe_oi is, and otherwise
\* total_pe_oi / total_ce_oi rounded to the nearest hundredth.
C13_MetricsFromRows ==
    (last.op = "snapshot") =>
        LET m == snapshot.data.market_metrics
            ce_volume == SumFn([s \in Rows |-> option_data[s].ce_data.volume])
            pe_volume == SumFn([s \in Rows |-> option_data[s].pe_data.volume])
            ce_oi == SumFn([s \in Rows |-> option_data[s].ce_data.oi])
            pe_oi == SumFn([s \in Rows |-> option_data[s].pe_data.oi])
        IN  /\ m.total_ce_volume = ce_volume
            /\ m.total_pe_volume = pe_volume
            /\ m.total_ce_oi = ce_oi
            /\ m.total_pe_oi = pe_oi
            /\ m.total_volume = ce_volume + pe_volume
            /\ (ce_oi = 0) => (m.pcr = 0)
            /\ (ce_oi > 0) => (2 * Abs(100 * pe_oi - m.pcr * ce_oi) <= ce_oi)

C13_Witness ==
    /\ last.op = "snapshot"
    /\ snapshot.data.market_metrics.total_ce_oi = 300
    /\ snapshot.data.market_metrics.total_pe_oi = 500
    /\ snapshot.data.market_metrics.pcr = 167
    /\ snapshot.data.market_metrics.total_volume = 1000

\* C14: a dict returned by get_option_chain is a point-in-time copy: no later
\* quote update, depth update or initialize changes any value in it (its
\* rows' tag, position and quotes, its ATM and underlying fields, its
\* metrics).
C14_SnapshotIsPointInTime ==
    snapshot.taken => (snapshot.data = snapshot.at_return)

\* the subscribe messages put on the socket by the last call or callback
SentByEvent == {sent[i] : i \in (event.sent_before + 1)..Len(sent)}

\* the handlers the last message was handed to, in call order
Delivered == [i \in DOMAIN event.delivered |-> event.delivered[i].handler]

\* C15: a subscribe call made in any connection state other than
\* Authenticated (Disconnected, Connecting, Open, Closed) returns False and
\* sends nothing; and no subscribe message is on the socket unless an auth
\* success has been received on the connection.
C15_SubscribeRejectedUnlessAuthenticated ==
    /\ (event.op = "subscribe" /\ event.pre_state # "Authenticated") =>
          /\ event.ret = "False"
          /\ Len(sent) = event.sent_before
    /\ (\E i \in DOMAIN sent : sent[i].action = "subscribe") => auth_seen.success

\* C16: after an auth-success message the connection is authenticated and a
\* subscribe message has been sent, in that callback, for every subscription
\* a subscribe or subscribe_batch call was ever made with.
C16_AuthSuccessReplaysRequested ==
    (event.op = "on_message" /\ ~event.msg.malformed /\ event.msg.type = "auth"
        /\ event.msg.status = "success") =>
        /\ authenticated
        /\ \A sub \in requested : subscribe_message(sub) \in SentByEvent

\* C17: while the last auth result received is a failure, the connection is
\* unauthenticated and a subscribe call returns False and sends nothing,
\* whatever the connection's state was when the failure arrived.
C17_AuthFailureLeavesUnauthenticated ==
    (auth_seen.last = "failure") =>
        /\ ~authenticated
        /\ (event.op = "subscribe") =>
              /\ event.ret = "False"
              /\ Len(sent) = event.sent_before

\* C18: after on_error or on_close has run, the connection is Closed and
\* active is False.
C18_ErrorOrCloseDeactivates ==
    (event.op \in {"on_error", "on_close"}) =>
        /\ ConnState = "Closed"
        /\ ~active

\* C19: a market-data message is classified depth when it has a depth or bids
\* field, else quote when it has an open field, else ltp, and is handed once
\* to every handler registered for that mode, in registration order, and to
\* no other handler.
C19_DeliveredToModeHandlers ==
    (event.op = "on_message" /\ event.mode # "none") =>
        LET keys == IF event.msg.has_data THEN event.msg.data_keys ELSE event.msg.keys
            mode == IF keys \cap {"depth", "bids"} # {} THEN "depth"
                    ELSE IF "open" \in keys THEN "quote"
                    ELSE "ltp"
        IN  /\ event.mode = mode
            /\ Delivered = IF mode = "depth" THEN depth_handlers
                           ELSE IF mode = "quote" THEN quote_handlers
                           ELSE ltp_handlers

\* C20: when a handler raises while a message is dispatched, the handlers
\* registered after it for the same mode are still called with the message,
\* on_message returns normally, and active, authenticated and subscriptions
\* are unchanged.
C20_HandlerExceptionIsolated ==
    [][(event'.op = "on_message"
          /\ \E i \in DOMAIN event'.delivered : event'.delivered[i].raised) =>
          /\ event'.mode \in {"depth", "quote"}
          /\ [i \in DOMAIN event'.delivered |-> event'.delivered[i].handler] =
                 (IF event'.mode = "depth" THEN depth_handlers ELSE quote_handlers)
          /\ event'.ret = "None"
          /\ UNCHANGED <<active, authenticated, subscriptions, ws, sent,
                         quote_handlers, depth_handlers, ltp_handlers>>]_vars

C20_Witness ==
    /\ event.op = "on_message"
    /\ event.mode = "quote"
    /\ Len(event.delivered) = 2
    /\ event.delivered[1].raised
    /\ ~event.delivered[2].raised
    /\ Delivered = quote_handlers
    /\ authenticated
    /\ subscriptions # {}

\* C21: initialize with a successful quote fetch on an engine whose
\* connection is authenticated, generating N rows, sends exactly 2N + 1
\* messages: one subscribe for the underlying with mode code 2, and for each
\* row one subscribe for its call and one for its put with mode code 3.
C21_InitializeSubscribes2NPlus1 ==
    (last.op = "initialize" /\ last.rest = "success" /\ websocket_manager
        /\ authenticated) =>
        LET N == Cardinality(Rows)
            For(sym, code) == {i \in DOMAIN sent : /\ sent[i].action = "subscribe"
                                                   /\ sent[i].symbol = sym
                                                   /\ sent[i].mode = code}
        IN  /\ N = 2 * HalfWidth + 1
            /\ Len(sent) = 2 * N + 1
            /\ \A i \in DOMAIN sent : sent[i].action = "subscribe"
            /\ Cardinality({i \in DOMAIN sent : sent[i].mode = 2}) = 1
            /\ Cardinality({i \in DOMAIN sent : sent[i].mode = 3}) = 2 * N
            /\ Cardinality(For(underlying, 2)) = 1
            /\ \A i \in For(underlying, 2) : sent[i].exchange = index_exchange
            /\ \A s \in Rows :
                  /\ Cardinality(For(option_data[s].ce_symbol, 3)) = 1
                  /\ Cardinality(For(option_data[s].pe_symbol, 3)) = 1
            /\ \A i \in DOMAIN sent : sent[i].mode = 3 => sent[i].exchange = option_exchange

C21_Witness ==
    /\ last.op = "initialize"
    /\ last.rest = "success"
    /\ websocket_manager
    /\ authenticated
    /\ Len(sent) = 4 * HalfWidth + 3
    /\ sent[1].symbol = underlying

\* C24: after any call of initialize, handle_quote_update or
\* handle_depth_update, in any order, the grid is empty or has exactly 41
\* rows, and the call has not set a stored non-zero quote of a row back to
\* zeros.
C24_GridIs41AndKeepsQuotes ==
    [][(last'.op \in {"initialize", "quote", "depth"}) =>
          /\ \/ DOMAIN option_data' = {}
             \/ Cardinality(DOMAIN option_data') = 2 * HalfWidth + 1
          /\ \A s \in Rows :
                /\ (option_data[s].ce_data # ZeroQuote)
                      => (option_data'[s].ce_data # ZeroQuote)
                /\ (option_data[s].pe_data # ZeroQuote)
                      => (option_data'[s].pe_data # ZeroQuote)]_vars

\* C25: once on_close has run for the connection's socket, active is False,
\* whatever the interleaving of connect with the socket callbacks; connect
\* does not return True, with active set, for a socket that has closed.
C25_ClosedSocketIsInactive ==
    /\ (sock = "closed") => ~active
    /\ (event.op = "connect_return" /\ sock = "closed") => event.ret # "True"

\* C26: an engine marked initialized has a non-zero ATM and a non-empty grid
\* (an initialize whose quote fetch failed leaves it uninitialized).
C26_InitializedHasGrid ==
    initialized => (atm_strike # 0 /\ Rows # {})

\* C22: a row the request thread reads while the socket thread handles a
\* quote tick is never torn: its tag is the tag of its position (ATM for 0,
\* OTMn for n > 0, ITMn for -n < 0).
C22_NoTornRow ==
    reader.seen => reader.row.tag = get_position_tag(reader.row.position)

\* C23: every side of a row the request thread reads while the socket thread
\* handles depth ticks has its eight fields from one depth update for that
\* side, or is the initial zero quote; no side mixes two updates.
C23_SideFromOneUpdate ==
    reader.seen =>
        /\ reader.row.ce_data \in
              {ZeroQuote} \cup {build_depth_data(t) :
                                  t \in {u \in RaceDepthTicks :
                                            u.symbol = reader.row.ce_symbol}}
        /\ reader.row.pe_data \in
              {ZeroQuote} \cup {build_depth_data(t) :
                                  t \in {u \in RaceDepthTicks :
                                            u.symbol = reader.row.pe_symbol}}

\* the row was read between the build and the store of a second, different
\* update of a side that already held the quote of a first one
C23_Witness ==
    /\ reader.seen
    /\ reader.during = "store"
    /\ writer.pc = "store"
    /\ writer.strike = reader.row.strike
    /\ writer.type = "CE"
    /\ reader.row.ce_data # ZeroQuote
    /\ reader.row.ce_data # writer.depth_data
    /\ option_data[reader.row.strike].ce_data = reader.row.ce_data
====
